---- MODULE Spec2Model ----
(***************************************************************************)
(* archive-graph: two one-shot ETL scripts that copy accounts, tweets,     *)
(* follower edges, likes and media from Postgres/Supabase into Neo4j.      *)
(*   src/main.py            bulk path: COPY to CSV, then LOAD CSV + MERGE  *)
(*   src/scripts/import.py  query path: paginated REST fetch, per-row      *)
(*                          MERGE inside one transaction                   *)
(* The graph store persists between runs of a script; the relational       *)
(* source may be edited between runs.                                      *)
(***************************************************************************)
EXTENDS Integers, Sequences, FiniteSets, TLC

\* ------------------------------------------------------------------ bounds
\* Rows of a relationship list (query path), total relationship rows of the
\* source (bulk path).
MaxRows == 2
\* Runs of a script against the same graph store.
MaxRuns == 2
\* Page sizes tried for the follower fetch (the script fixes 1000).
MaxPageSize == 2

\* Account ids of the relational source.
SrcIds == {"a", "b"}
\* Ids a caller may hand to the loader: the source's and one unknown to it.
IDs == SrcIds \cup {"z"}
TweetIds == {"t"}
MediaIds == {7}
Versions == {1, 2}

NULL == <<>>

\* ------------------------------------------------------------- graph store
\* A graph is [nodes, edges]; a node is [nid, label, pk, props], an edge is
\* [eid, type, src, dst] with src and dst node ids.
EmptyGraph == [nodes |-> {}, edges |-> {}]

Match(g, label, key) == {n \in g.nodes : n.label = label /\ n.pk = key}

MatchIds(g, label, key) == {n.nid : n \in Match(g, label, key)}

\* SET n.p = v, ... on the nodes bound by the preceding MERGE
SetProps(g, label, key, props) ==
  [g EXCEPT !.nodes = {IF n.label = label /\ n.pk = key
                       THEN [n EXCEPT !.props = props] ELSE n : n \in @}]

\* MERGE (n:label {key}) ON CREATE SET props: the created node
MergeCreateSet(g, label, key, props) ==
  [g EXCEPT !.nodes = @ \cup {[nid |-> Cardinality(g.nodes) + 1, label |-> label,
                               pk |-> key, props |-> props]}]

\* (variant: a plain SET after the MERGE, applied to a matched node too)
MergeThenSet(g, label, key, props) == SetProps(g, label, key, props)

\* ... and the matched one, which ON CREATE SET leaves as it is
MergeOnMatch(g, label, key, props) == g

MergeNode(g, label, key, props) ==
  IF Match(g, label, key) = {}
  THEN MergeCreateSet(g, label, key, props)
  ELSE MergeOnMatch(g, label, key, props)

RECURSIVE AddEdges(_, _, _)
AddEdges(g, type, pairs) ==
  IF pairs = {} THEN g
  ELSE LET p == CHOOSE q \in pairs : \A r \in pairs : q[1] < r[1] \/ (q[1] = r[1] /\ q[2] <= r[2])
       IN AddEdges([g EXCEPT !.edges = @ \cup {[eid |-> Cardinality(g.edges) + 1,
                                                type |-> type, src |-> p[1], dst |-> p[2]]}],
                   type, pairs \ {p})

HasEdge(g, type, s, d) == \E e \in g.edges : e.type = type /\ e.src = s /\ e.dst = d

\* (variant: CREATE (s)-[:type]->(d), a new edge whether or not one exists)
CreateEdge(g, type, S, D) == AddEdges(g, type, S \X D)

\* MERGE (s)-[:type]->(d) for every bound pair: an edge only where none exists
MergeEdge(g, type, S, D) ==
  AddEdges(g, type, {p \in S \X D : ~HasEdge(g, type, p[1], p[2])})

\* ------------------------------------------------------------ conversions
\* COPY ... WITH CSV writes an integer column as its decimal text.
CsvText(n) ==
  CASE n = 0 -> "0" [] n = 1 -> "1" [] n = 2 -> "2" [] n = 3 -> "3"
    [] n = 7 -> "7" [] n = 8 -> "8" [] OTHER -> "?"

\* Cypher toInteger(): the integer a text denotes, null when it denotes none.
ToInteger(s) ==
  CASE s = "0" -> 0 [] s = "1" -> 1 [] s = "2" -> 2 [] s = "3" -> 3
    [] s = "7" -> 7 [] s = "8" -> 8 [] OTHER -> NULL


\* ------------------------------------------------------- relational source
VARIABLES
  script,        \* "bulk" (main.py), "query" (import.py), "loader" or "fetch"
                 \* (one function of import.py called with given arguments)
  srcVersion,    \* edition of the rows' descriptive columns
  accountTbl,    \* account: the account_ids present
  profNull,      \* accounts whose all_profile join is null
  tweetsTbl,     \* enriched_tweets: rows [tweet_id, account_id]
  followersTbl,  \* followers: rows [account_id, follower_account_id]
  followingTbl,  \* following: rows [account_id, following_account_id]
  likesTbl,      \* likes: rows [account_id, liked_tweet_id]
  mediaTbl,      \* tweet_media: rows [media_id, tweet_id]
  args           \* "loader": the arguments of insert_relationships_into_neo4j

srcVars == <<script, srcVersion, accountTbl, profNull, tweetsTbl, followersTbl,
             followingTbl, likesTbl, mediaTbl, args>>

VARIABLES
  pc,            \* position of the running script
  runs,          \* runs started so far
  graph,         \* committed content of the Neo4j database
  constraints,   \* labels with a uniqueness constraint
  log,           \* messages printed by the current run
  exc,           \* exception that ended the current run uncaught, or "none"
  conn,          \* Postgres connection: "none", "open", "closed"
  drv,           \* Neo4j driver: "none", "open", "closed"
  connAcq,       \* connections acquired by the current run
  drvAcq,        \* drivers acquired by the current run
  connFail       \* store whose connection failed in the current run, or "none"

VARIABLES
  csv,           \* bulk: the export directory, file name -> rows
  expIdx,        \* bulk: tables exported by the current run
  stmts          \* Neo4j statements the current run has completed

VARIABLES
  valid_ids, account_details, all_relationships,  \* query: locals of main()
  page, page_size, requests,                      \* query: the page loop
  fetchFail,     \* query: a fetch request of the current run failed
  tx,            \* query: "none", "open", "committed", "rolledback"
  txGraph,       \* query: the graph as the open transaction sees it
  rowIdx,        \* query: index of the row the loop is at
  failedAt       \* query: rowIdx when the batch raised, 0 if it did not

VARIABLES
  startGraph,    \* graph when the current run (query: the batch) began
  okGraph,       \* graph at the end of the last run that completed its load
  okRuns,        \* runs that completed their load
  srcChanged     \* the source was edited since that run

runVars == <<pc, runs, log, exc, conn, drv, connAcq, drvAcq, connFail>>
bulkVars == <<csv, expIdx>>
fetchVars == <<valid_ids, account_details, all_relationships, page, requests, fetchFail>>
txVars == <<tx, txGraph, rowIdx, failedAt>>
histVars == <<startGraph, okGraph, okRuns, srcChanged>>

okRan == okRuns > 0

vars == <<srcVars, runVars, graph, constraints, bulkVars, stmts, fetchVars,
          page_size, txVars, histVars>>

\* Sequences over S of length at most n.
SeqUpTo(S, n) == UNION {[1..k -> S] : k \in 0..n}

RECURSIVE SetToSeq(_)
SetToSeq(S) ==
  IF S = {} THEN <<>>
  ELSE LET x == CHOOSE y \in S : TRUE IN <<x>> \o SetToSeq(S \ {x})

Text(field, id, v) == <<field, id, v>>

\* The rows of each table as SELECT * returns them.
AccountRow(id, v) ==
  [account_id |-> id, username |-> Text("username", id, v),
   created_at |-> Text("created_at", id, v), created_via |-> Text("created_via", id, v),
   account_display_name |-> Text("account_display_name", id, v),
   num_tweets |-> v, num_following |-> v, num_followers |-> v, num_likes |-> v]

TweetRow(r, v) ==
  [tweet_id |-> r.tweet_id, account_id |-> r.account_id,
   full_text |-> Text("full_text", r.tweet_id, v),
   created_at |-> Text("created_at", r.tweet_id, v),
   retweet_count |-> v, favorite_count |-> v]

MediaRow(r, v) ==
  [media_id |-> r.media_id, tweet_id |-> r.tweet_id,
   media_url |-> Text("media_url", r.media_id, v),
   media_type |-> Text("media_type", r.media_id, v), width |-> v, height |-> v]


\* ---------------------------------------------------- main.py: the export
\* TABLES_TO_EXPORT: (table_name, output_csv_name), in this order.
TABLES_TO_EXPORT ==
  << <<"account", "account.csv">>, <<"enriched_tweets", "enriched_tweets.csv">>,
     <<"followers", "followers.csv">>, <<"following", "following.csv">>,
     <<"likes", "likes.csv">>, <<"tweet_media", "tweet_media.csv">> >>

MapSeq(Op(_), rows) == [i \in 1..Len(rows) |-> Op(rows[i])]

\* SELECT * FROM table, as the source holds it now.
TableRows(table) ==
  CASE table = "account" ->
         MapSeq(LAMBDA id : AccountRow(id, srcVersion), SetToSeq(accountTbl))
    [] table = "enriched_tweets" -> MapSeq(LAMBDA r : TweetRow(r, srcVersion), tweetsTbl)
    [] table = "followers" -> followersTbl
    [] table = "following" -> followingTbl
    [] table = "likes" -> likesTbl
    [] table = "tweet_media" -> MapSeq(LAMBDA r : MediaRow(r, srcVersion), mediaTbl)

IntColumns ==
  {"num_tweets", "num_following", "num_followers", "num_likes", "retweet_count",
   "favorite_count", "media_id", "width", "height"}

\* export_table_to_csv: COPY (SELECT * FROM table) TO STDOUT WITH CSV HEADER.
\* Every column becomes text under the column's name.
export_table_to_csv(table) ==
  MapSeq(LAMBDA r : [c \in DOMAIN r |-> IF c \in IntColumns THEN CsvText(r[c]) ELSE r[c]],
         TableRows(table))

\* ------------------------------------------------- main.py: the LOAD CSVs
RECURSIVE FoldRows(_, _, _)
FoldRows(Op(_, _), g, rows) ==
  IF rows = <<>> THEN g ELSE FoldRows(Op, Op(g, Head(rows)), Tail(rows))

\* (B) MERGE (a:Account {account_id}) ON CREATE SET ...
AccountStmt(g, row) ==
  MergeNode(g, "Account", row.account_id,
            [username |-> row.username, created_at |-> row.created_at,
             created_via |-> row.created_via,
             account_display_name |-> row.account_display_name,
             num_tweets |-> ToInteger(row.num_tweets),
             num_following |-> ToInteger(row.num_following),
             num_followers |-> ToInteger(row.num_followers),
             num_likes |-> ToInteger(row.num_likes)])

\* (C) MERGE (tw:Tweet {tweet_id}) ON CREATE SET ... WITH tw, row
\*     MATCH (a:Account {account_id}) MERGE (a)-[:TWEETED]->(tw)
TweetStmt(g, row) ==
  LET g1 == MergeNode(g, "Tweet", row.tweet_id,
                      [full_text |-> row.full_text, created_at |-> row.created_at,
                       retweet_count |-> ToInteger(row.retweet_count),
                       favorite_count |-> ToInteger(row.favorite_count)])
  IN MergeEdge(g1, "TWEETED", MatchIds(g1, "Account", row.account_id),
               MatchIds(g1, "Tweet", row.tweet_id))

\* (variant: both MATCH clauses read row.account_id)
FollowersStmtSameColumn(g, row) ==
  MergeEdge(g, "FOLLOWS", MatchIds(g, "Account", row.account_id),
            MatchIds(g, "Account", row.account_id))

\* (D) MATCH acc, follower MERGE (follower)-[:FOLLOWS]->(acc)
FollowersStmt(g, row) ==
  MergeEdge(g, "FOLLOWS", MatchIds(g, "Account", row.follower_account_id),
            MatchIds(g, "Account", row.account_id))

\* (E) MATCH acc, followee MERGE (acc)-[:FOLLOWS]->(followee)
FollowingStmt(g, row) ==
  MergeEdge(g, "FOLLOWS", MatchIds(g, "Account", row.account_id),
            MatchIds(g, "Account", row.following_account_id))

\* (F) MATCH a, t MERGE (a)-[:LIKES]->(t)
LikesStmt(g, row) ==
  MergeEdge(g, "LIKES", MatchIds(g, "Account", row.account_id),
            MatchIds(g, "Tweet", row.liked_tweet_id))

\* (G) MERGE (m:Media {media_id: toInteger(media_id)}) ON CREATE SET ... WITH m, row
\*     MATCH (t:Tweet {tweet_id}) MERGE (t)-[:HAS_MEDIA]->(m)
MediaStmt(g, row) ==
  LET g1 == MergeNode(g, "Media", ToInteger(row.media_id),
                      [media_url |-> row.media_url, media_type |-> row.media_type,
                       width |-> ToInteger(row.width), height |-> ToInteger(row.height)])
  IN MergeEdge(g1, "HAS_MEDIA", MatchIds(g1, "Tweet", row.tweet_id),
               MatchIds(g1, "Media", ToInteger(row.media_id)))


\* ------------------------------------------------ import.py: the fetchers
\* Python's dict.get(key), None when the key is missing.
DictGet(d, k) == IF k \in DOMAIN d THEN d[k] ELSE NULL

\* supabase.table("account").select("account_id")
AccountIdResponse == MapSeq(LAMBDA id : [account_id |-> id], SetToSeq(accountTbl))

\* fetch_valid_account_ids: {row["account_id"] for row in data if "account_id" in row}
ValidIdsOf(data) ==
  {data[i].account_id : i \in {j \in 1..Len(data) : "account_id" \in DOMAIN data[j]}}

\* account joined with all_profile, filtered by .in_("account_id", ids)
ProfileOf(id, v) ==
  [bio |-> Text("bio", id, v), location |-> Text("location", id, v),
   avatar_media_url |-> Text("avatar_media_url", id, v)]

DetailRow(id, v, noProfile) ==
  [account_id |-> id, username |-> Text("username", id, v),
   account_display_name |-> Text("account_display_name", id, v),
   all_profile |-> IF noProfile THEN NULL ELSE ProfileOf(id, v)]

DetailResponse(ids) ==
  MapSeq(LAMBDA id : DetailRow(id, srcVersion, id \in profNull),
         SetToSeq(accountTbl \cap ids))

\* fetch_account_details: one entry per row of the response
DetailEntry(row) ==
  LET profile_data == row.all_profile  \* row.get("all_profile") or {}: None is {} here
  IN [username |-> row.username, account_display_name |-> row.account_display_name,
      bio |-> DictGet(profile_data, "bio"), location |-> DictGet(profile_data, "location"),
      avatar_media_url |-> DictGet(profile_data, "avatar_media_url")]

DetailsOf(data) ==
  [id \in {data[i].account_id : i \in 1..Len(data)} |->
     DetailEntry(data[CHOOSE i \in 1..Len(data) :
                        /\ data[i].account_id = id
                        /\ \A j \in 1..Len(data) : data[j].account_id = id => j <= i])]

\* followers filtered by .in_ on both columns, in the table's order
RECURSIVE FilterIn(_, _)
FilterIn(rows, ids) ==
  IF rows = <<>> THEN <<>>
  ELSE (IF Head(rows).account_id \in ids /\ Head(rows).follower_account_id \in ids
        THEN <<Head(rows)>> ELSE <<>>) \o FilterIn(Tail(rows), ids)

\* .range(lo, hi): rows lo..hi of the result, counted from 0, both included
Range(rows, lo, hi) ==
  SubSeq(rows, lo + 1, IF hi + 1 < Len(rows) THEN hi + 1 ELSE Len(rows))

\* the bounds the page loop asks for
PageFrom(pg, size) == pg * size

PageTo(pg, size) == (pg + 1) * size - 1

\* (variant: the loop also stops at a page that is exactly full)
LastPageWhenFull(batch, size) == Len(batch) <= size

\* "if len(current_batch) < page_size: break"
LastPage(batch, size) == Len(batch) < size

\* --------------------------------------------- import.py: the row loader
\* (variant: a row is discarded only when both of its ids are unknown)
DiscardWhenBothUnknown(row, valid) ==
  row.account_id \notin valid /\ row.follower_account_id \notin valid

\* "if followed_id not in valid_ids or follower_id not in valid_ids: continue"
Discard(row, valid) ==
  row.account_id \notin valid \/ row.follower_account_id \notin valid

\* (variant: a placeholder entry stands in for the missing one)
DetailsGetPlaceholder(details, id) ==
  IF id \in DOMAIN details THEN details[id]
  ELSE [username |-> Text("username", id, 0),
        account_display_name |-> Text("account_display_name", id, 0)]

\* account_details.get(id, {})
DetailsGet(details, id) == IF id \in DOMAIN details THEN details[id] ELSE <<>>

UserProps(d) ==
  [username |-> DictGet(d, "username"),
   account_display_name |-> DictGet(d, "account_display_name"),
   bio |-> DictGet(d, "bio"), location |-> DictGet(d, "location"),
   avatar_media_url |-> DictGet(d, "avatar_media_url")]

NoProps ==
  [username |-> NULL, account_display_name |-> NULL, bio |-> NULL, location |-> NULL,
   avatar_media_url |-> NULL]

\* MERGE (u:User {id}) SET u.username = ..., u.avatar_media_url = ...
MergeUser(g, id, d) ==
  SetProps(MergeNode(g, "User", id, NoProps), "User", id, UserProps(d))

\* the Cypher of one row: both endpoints, then MERGE (followed)-[:FOLLOWED_BY]->(follower)
RowStmt(g, row, details) ==
  LET followed_id == row.account_id
      follower_id == row.follower_account_id
      g1 == MergeUser(g, followed_id, DetailsGet(details, followed_id))
      g2 == MergeUser(g1, follower_id, DetailsGet(details, follower_id))
  IN MergeEdge(g2, "FOLLOWED_BY", MatchIds(g2, "User", followed_id),
               MatchIds(g2, "User", follower_id))

\* tx.commit(): the transaction's view becomes the committed graph
Commit(committed, view) == view

\* (variant: the handler keeps what the transaction had written)
RollbackKeepsView(committed, view) == view

\* tx.rollback(): the committed graph stays as it was
Rollback(committed, view) == committed


\* ------------------------------------------------------------------- Init
FollowerRows(S) == [account_id : S, follower_account_id : S]
FollowingRows == [account_id : SrcIds, following_account_id : SrcIds]
LikeRows == [account_id : SrcIds, liked_tweet_id : TweetIds]
TweetRefs == [tweet_id : TweetIds, account_id : SrcIds]
MediaRefs == [media_id : MediaIds, tweet_id : TweetIds]

\* The argument a caller passes as account_details: what fetch_account_details
\* builds from a response that covers the accounts `have`, `noprof` of them without
\* profile ("loader" keeps the two in accountTbl and profNull).
DetailsArg(have, noprof) ==
  DetailsOf(MapSeq(LAMBDA id : DetailRow(id, 1, id \in noprof), SetToSeq(have)))

NoArgs == [relationships |-> <<>>, valid_ids |-> {}, account_details |-> <<>>]

InitSource ==
  \/ /\ script = "bulk"
     /\ accountTbl \in SUBSET SrcIds
     /\ profNull = {}
     /\ tweetsTbl \in SeqUpTo(TweetRefs, 1)
     /\ \E n1 \in 0..MaxRows : \E n2 \in 0..(MaxRows - n1) :
        \E n3 \in 0..(MaxRows - n1 - n2) : \E n4 \in 0..(MaxRows - n1 - n2 - n3) :
          /\ followersTbl \in [1..n1 -> FollowerRows(SrcIds)]
          /\ followingTbl \in [1..n2 -> FollowingRows]
          /\ likesTbl \in [1..n3 -> LikeRows]
          /\ mediaTbl \in [1..n4 -> MediaRefs]
     /\ args = NoArgs
     /\ page_size = 1
  \/ /\ script \in {"query", "fetch"}
     /\ accountTbl \in SUBSET SrcIds
     /\ profNull \in SUBSET accountTbl
     /\ followersTbl \in SeqUpTo(FollowerRows(SrcIds), MaxRows)
     /\ tweetsTbl = <<>> /\ followingTbl = <<>> /\ likesTbl = <<>> /\ mediaTbl = <<>>
     /\ args = NoArgs
     /\ page_size \in 1..MaxPageSize
  \/ /\ script = "loader"
     /\ followersTbl = <<>> /\ tweetsTbl = <<>> /\ followingTbl = <<>>
     /\ likesTbl = <<>> /\ mediaTbl = <<>>
     /\ \E valid \in SUBSET SrcIds : \E rels \in SeqUpTo(FollowerRows(IDs), MaxRows) :
          /\ accountTbl \in SUBSET valid
          /\ profNull \in SUBSET accountTbl
          /\ args = [relationships |-> rels, valid_ids |-> valid,
                     account_details |-> DetailsArg(accountTbl, profNull)]
     /\ page_size = 1

Init ==
  /\ InitSource
  /\ srcVersion = 1
  /\ pc = "idle" /\ runs = 0
  /\ graph = EmptyGraph /\ constraints = {}
  /\ log = {} /\ exc = "none"
  /\ conn = "none" /\ drv = "none" /\ connAcq = 0 /\ drvAcq = 0 /\ connFail = "none"
  /\ csv = <<>> /\ expIdx = 0 /\ stmts = 0
  /\ valid_ids = {} /\ account_details = <<>> /\ all_relationships = <<>>
  /\ page = 0 /\ requests = 0 /\ fetchFail = FALSE
  /\ tx = "none" /\ txGraph = EmptyGraph /\ rowIdx = 0 /\ failedAt = 0
  /\ startGraph = EmptyGraph /\ okGraph = EmptyGraph /\ okRuns = 0
  /\ srcChanged = FALSE

\* ------------------------------------------------------------ run control
EntryPoint ==
  CASE script = "bulk" -> "b_connect"
    [] script = "query" -> "q_driver"
    [] script = "fetch" -> "q_rels"
    [] script = "loader" -> "q_session"

\* What a process starts with, and what is left of one that has ended.
Fresh ==
  /\ log' = {} /\ exc' = "none"
  /\ conn' = "none" /\ connAcq' = 0 /\ connFail' = "none"
  /\ drv' = (IF script \in {"fetch", "loader"} THEN "open" ELSE "none")
  /\ drvAcq' = (IF script \in {"fetch", "loader"} THEN 1 ELSE 0)
  /\ csv' = <<>> /\ expIdx' = 0 /\ stmts' = 0
  /\ valid_ids' = (CASE script = "loader" -> args.valid_ids
                     [] script = "fetch" -> accountTbl
                     [] OTHER -> {})
  /\ account_details' = (IF script = "loader" THEN args.account_details ELSE <<>>)
  /\ all_relationships' = (IF script = "loader" THEN args.relationships ELSE <<>>)
  /\ page' = 0 /\ requests' = 0 /\ fetchFail' = FALSE
  /\ tx' = "none" /\ txGraph' = EmptyGraph /\ rowIdx' = 0 /\ failedAt' = 0
  /\ startGraph' = graph

\* The operating system starts the script: a fresh process, nothing acquired.
\* "fetch" and "loader" call one function with its arguments, the module's driver
\* open. The export directory is taken as empty: main.py rewrites every file of it
\* before it reads any.
StartRun ==
  /\ pc \in {"idle", "exit"}
  /\ runs < MaxRuns
  /\ runs' = runs + 1
  /\ pc' = EntryPoint
  /\ Fresh
  /\ UNCHANGED <<srcVars, graph, constraints, page_size, okGraph, okRuns, srcChanged>>

\* Between two runs the source is edited: the descriptive columns get new values ...
SourceEdit ==
  /\ script \in {"bulk", "query"} /\ pc = "exit" /\ runs < MaxRuns
  /\ srcVersion = 1
  /\ srcVersion' = 2
  /\ srcChanged' = TRUE
  /\ pc' = "idle"
  /\ Fresh
  /\ UNCHANGED <<script, accountTbl, profNull, tweetsTbl, followersTbl, followingTbl,
                 likesTbl, mediaTbl, args, runs, graph, constraints, page_size,
                 okGraph, okRuns>>

\* ... or an account is deleted (no foreign key guards the rows that name it).
SourceDelete ==
  /\ script \in {"bulk", "query"} /\ pc = "exit" /\ runs < MaxRuns
  /\ \E id \in accountTbl :
       /\ accountTbl' = accountTbl \ {id}
       /\ profNull' = profNull \ {id}
  /\ srcChanged' = TRUE
  /\ pc' = "idle"
  /\ Fresh
  /\ UNCHANGED <<script, srcVersion, tweetsTbl, followersTbl, followingTbl,
                 likesTbl, mediaTbl, args, runs, graph, constraints, page_size,
                 okGraph, okRuns>>

\* A run has completed its load: the graph it leaves is what a repeat of the same
\* load on the same source is compared with.
Loaded ==
  /\ okGraph' = (IF okRan /\ ~srcChanged THEN okGraph ELSE graph')
  /\ okRuns' = okRuns + 1
  /\ srcChanged' = FALSE

\* An exception nobody catches ends the process with a traceback.
Uncaught(e) == pc' = "exit" /\ exc' = e


\* ------------------------------------------------------- main.py: main()
NTables == Len(TABLES_TO_EXPORT)

queryVars == <<fetchVars, page_size, txVars>>

\* (variant: the handler prints and falls through to the export)
AfterConnectErrorGoesOn == "b_export"

\* where main() goes after "Error connecting to Supabase PostgreSQL": it returns
AfterConnectError == "exit"

\* psycopg2.connect(), conn.autocommit, conn.cursor() all succeed
BConnect ==
  /\ pc = "b_connect"
  /\ conn' = "open" /\ connAcq' = connAcq + 1
  /\ log' = log \cup {"Successfully connected to Supabase PostgreSQL!"}
  /\ pc' = "b_export"
  /\ UNCHANGED <<srcVars, runs, exc, drv, drvAcq, connFail, graph, constraints,
                 bulkVars, stmts, queryVars, histVars>>

\* psycopg2.connect() raises: caught, printed, return
BConnectFail ==
  /\ pc = "b_connect"
  /\ log' = log \cup {"Error connecting to Supabase PostgreSQL"}
  /\ connFail' = "postgres"
  /\ pc' = AfterConnectError
  /\ UNCHANGED <<srcVars, runs, exc, conn, connAcq, drv, drvAcq, graph, constraints,
                 bulkVars, stmts, queryVars, histVars>>

\* connect() succeeds and conn.cursor() raises: the same handler, the connection open
BCursorFail ==
  /\ pc = "b_connect"
  /\ conn' = "open" /\ connAcq' = connAcq + 1
  /\ log' = log \cup {"Error connecting to Supabase PostgreSQL"}
  /\ connFail' = "postgres"
  /\ pc' = AfterConnectError
  /\ UNCHANGED <<srcVars, runs, exc, drv, drvAcq, graph, constraints,
                 bulkVars, stmts, queryVars, histVars>>

\* one turn of "for table_name, csv_filename in TABLES_TO_EXPORT"
BExport ==
  /\ pc = "b_export" /\ expIdx < NTables
  /\ LET t == TABLES_TO_EXPORT[expIdx + 1]
     IN csv' = [f \in DOMAIN csv \cup {t[2]} |->
                  IF f = t[2] THEN export_table_to_csv(t[1]) ELSE csv[f]]
  /\ expIdx' = expIdx + 1
  /\ UNCHANGED <<srcVars, runVars, graph, constraints, stmts, queryVars, histVars>>

\* copy_expert raises: open(path, "w") has emptied the file, nothing catches
BExportFail ==
  /\ pc = "b_export" /\ expIdx < NTables
  /\ LET t == TABLES_TO_EXPORT[expIdx + 1]
     IN csv' = [f \in DOMAIN csv \cup {t[2]} |-> IF f = t[2] THEN <<>> ELSE csv[f]]
  /\ Uncaught("psycopg2.Error")
  /\ UNCHANGED <<srcVars, runs, log, conn, drv, connAcq, drvAcq, connFail, graph,
                 constraints, expIdx, stmts, queryVars, histVars>>

\* cursor.close(); conn.close(); "Postgres export complete."
BClosePg ==
  /\ pc = "b_export" /\ expIdx = NTables
  /\ conn' = "closed"
  /\ log' = log \cup {"Postgres export complete."}
  /\ pc' = "b_driver"
  /\ UNCHANGED <<srcVars, runs, exc, connAcq, drv, drvAcq, connFail, graph, constraints,
                 bulkVars, stmts, queryVars, histVars>>

\* driver = GraphDatabase.driver(...)
BDriver ==
  /\ pc = "b_driver"
  /\ drv' = "open" /\ drvAcq' = drvAcq + 1
  /\ pc' = "b_load"
  /\ UNCHANGED <<srcVars, runs, log, exc, conn, connAcq, connFail, graph, constraints,
                 bulkVars, stmts, queryVars, histVars>>

BDriverFail ==
  /\ pc = "b_driver"
  /\ connFail' = "neo4j"
  /\ Uncaught("ServiceUnavailable")
  /\ UNCHANGED <<srcVars, runs, log, conn, connAcq, drv, drvAcq, graph, constraints,
                 bulkVars, stmts, queryVars, histVars>>

\* ------------------------------------- main.py: load_data_into_neo4j(driver)
ConstraintLabels == <<"Account", "Tweet", "Media">>

\* the session.run calls: the constraints, awaitIndexes, one LOAD CSV per table
NStmts == Len(ConstraintLabels) + 1 + NTables

LoadStep(k, g) ==
  /\ pc = "b_load" /\ stmts = k
  /\ graph' = g
  /\ stmts' = k + 1
  /\ UNCHANGED <<srcVars, runVars, constraints, bulkVars, queryVars, histVars>>

\* (A) CREATE CONSTRAINT IF NOT EXISTS, for Account, Tweet and Media in turn
BConstraint ==
  /\ pc = "b_load" /\ stmts < Len(ConstraintLabels)
  /\ constraints' = constraints \cup {ConstraintLabels[stmts + 1]}
  /\ stmts' = stmts + 1
  /\ UNCHANGED <<srcVars, runVars, graph, bulkVars, queryVars, histVars>>

\* CALL db.awaitIndexes()
BAwaitIndexes == LoadStep(3, graph)

BLoadAccounts == LoadStep(4, FoldRows(AccountStmt, graph, csv[TABLES_TO_EXPORT[1][2]]))

BLoadTweets == LoadStep(5, FoldRows(TweetStmt, graph, csv[TABLES_TO_EXPORT[2][2]]))

BLoadFollowers == LoadStep(6, FoldRows(FollowersStmt, graph, csv[TABLES_TO_EXPORT[3][2]]))

BLoadFollowing == LoadStep(7, FoldRows(FollowingStmt, graph, csv[TABLES_TO_EXPORT[4][2]]))

BLoadLikes == LoadStep(8, FoldRows(LikesStmt, graph, csv[TABLES_TO_EXPORT[5][2]]))

\* (G), then "Data load into Neo4j completed successfully!"
BLoadMedia ==
  /\ pc = "b_load" /\ stmts = NStmts - 1
  /\ graph' = FoldRows(MediaStmt, graph, csv[TABLES_TO_EXPORT[6][2]])
  /\ stmts' = NStmts
  /\ log' = log \cup {"Data load into Neo4j completed successfully!"}
  /\ pc' = "b_close"
  /\ Loaded
  /\ UNCHANGED <<srcVars, runs, exc, conn, drv, connAcq, drvAcq, connFail, constraints,
                 bulkVars, queryVars, startGraph>>

\* a session.run raises (the first one, when the server cannot be reached):
\* nothing catches. The statement is taken to leave nothing behind.
BStmtFail ==
  /\ pc = "b_load" /\ stmts < NStmts
  /\ \E e \in {"ServiceUnavailable", "Neo4jError"} :
       /\ e = "ServiceUnavailable" => stmts = 0
       /\ connFail' = (IF e = "ServiceUnavailable" THEN "neo4j" ELSE connFail)
       /\ Uncaught(e)
  /\ UNCHANGED <<srcVars, runs, log, conn, drv, connAcq, drvAcq, graph, constraints,
                 bulkVars, stmts, queryVars, histVars>>

\* driver.close(); "Done."
BCloseDriver ==
  /\ pc = "b_close"
  /\ drv' = "closed"
  /\ log' = log \cup {"Done."}
  /\ pc' = "exit"
  /\ UNCHANGED <<srcVars, runs, exc, conn, connAcq, drvAcq, connFail, graph, constraints,
                 bulkVars, stmts, queryVars, histVars>>

NextBulk ==
  \/ BConnect \/ BConnectFail \/ BCursorFail \/ BExport \/ BExportFail \/ BClosePg
  \/ BDriver \/ BDriverFail \/ BConstraint \/ BAwaitIndexes \/ BLoadAccounts
  \/ BLoadTweets \/ BLoadFollowers \/ BLoadFollowing \/ BLoadLikes \/ BLoadMedia
  \/ BStmtFail \/ BCloseDriver


\* ------------------------------------------- import.py: module level, main()
\* driver = GraphDatabase.driver(URI, auth=AUTH)
QDriver ==
  /\ pc = "q_driver"
  /\ drv' = "open" /\ drvAcq' = drvAcq + 1
  /\ pc' = "q_verify"
  /\ UNCHANGED <<srcVars, runs, log, exc, conn, connAcq, connFail, graph, constraints,
                 bulkVars, stmts, queryVars, histVars>>

\* driver.verify_connectivity()
QVerify ==
  /\ pc = "q_verify"
  /\ pc' = "q_ids"
  /\ UNCHANGED <<srcVars, runs, log, exc, conn, drv, connAcq, drvAcq, connFail, graph,
                 constraints, bulkVars, stmts, queryVars, histVars>>

QVerifyFail ==
  /\ pc = "q_verify"
  /\ connFail' = "neo4j"
  /\ Uncaught("ServiceUnavailable")
  /\ UNCHANGED <<srcVars, runs, log, conn, drv, connAcq, drvAcq, graph, constraints,
                 bulkVars, stmts, queryVars, histVars>>

\* what reaches main()'s caller when a fetcher's request raises APIError
IdsError == "APIError"

DetailsError == "RuntimeError"

FollowersError == "RuntimeError"

\* fetch_valid_account_ids()
QFetchIds ==
  /\ pc = "q_ids"
  /\ requests' = requests + 1
  /\ valid_ids' = ValidIdsOf(AccountIdResponse)
  /\ log' = log \cup {"Number of valid account IDs fetched"}
  /\ pc' = "q_details"
  /\ UNCHANGED <<srcVars, runs, exc, conn, drv, connAcq, drvAcq, connFail, graph,
                 constraints, bulkVars, stmts, account_details, all_relationships, page,
                 fetchFail, page_size, txVars, histVars>>

QFetchIdsFail ==
  /\ pc = "q_ids"
  /\ requests' = requests + 1
  /\ fetchFail' = TRUE
  /\ Uncaught(IdsError)
  /\ UNCHANGED <<srcVars, runs, log, conn, drv, connAcq, drvAcq, connFail, graph,
                 constraints, bulkVars, stmts, valid_ids, account_details,
                 all_relationships, page, page_size, txVars, histVars>>

\* fetch_account_details(valid_ids)
QFetchDetails ==
  /\ pc = "q_details"
  /\ requests' = requests + 1
  /\ account_details' = DetailsOf(DetailResponse(valid_ids))
  /\ log' = log \cup {"Number of account details fetched"}
  /\ pc' = "q_rels"
  /\ UNCHANGED <<srcVars, runs, exc, conn, drv, connAcq, drvAcq, connFail, graph,
                 constraints, bulkVars, stmts, valid_ids, all_relationships, page,
                 fetchFail, page_size, txVars, histVars>>

QFetchDetailsFail ==
  /\ pc = "q_details"
  /\ requests' = requests + 1
  /\ fetchFail' = TRUE
  /\ Uncaught(DetailsError)
  /\ UNCHANGED <<srcVars, runs, log, conn, drv, connAcq, drvAcq, connFail, graph,
                 constraints, bulkVars, stmts, valid_ids, account_details,
                 all_relationships, page, page_size, txVars, histVars>>

\* fetch_follower_relationships(valid_ids): one turn of "while True"
FetchPage ==
  /\ pc = "q_rels"
  /\ requests' = requests + 1
  /\ LET current_batch == Range(FilterIn(followersTbl, valid_ids),
                                PageFrom(page, page_size), PageTo(page, page_size))
     IN /\ all_relationships' = all_relationships \o current_batch
        /\ IF LastPage(current_batch, page_size)
           THEN /\ page' = page
                /\ log' = log \cup {"Total number of follower relationships fetched"}
                /\ pc' = (IF script = "fetch" THEN "exit" ELSE "q_session")
           ELSE /\ page' = page + 1
                /\ log' = log \cup {"Fetched page"}
                /\ pc' = pc
  /\ UNCHANGED <<srcVars, runs, exc, conn, drv, connAcq, drvAcq, connFail, graph,
                 constraints, bulkVars, stmts, valid_ids, account_details, fetchFail,
                 page_size, txVars, histVars>>

FetchPageFail ==
  /\ pc = "q_rels"
  /\ requests' = requests + 1
  /\ fetchFail' = TRUE
  /\ Uncaught(FollowersError)
  /\ UNCHANGED <<srcVars, runs, log, conn, drv, connAcq, drvAcq, connFail, graph,
                 constraints, bulkVars, stmts, valid_ids, account_details,
                 all_relationships, page, page_size, txVars, histVars>>

NextFetch == FetchPage \/ FetchPageFail

\* ------------------------------- import.py: insert_relationships_into_neo4j
\* with driver.session(): CREATE CONSTRAINT IF NOT EXISTS FOR (u:User) ...
LSession ==
  /\ pc = "q_session"
  /\ log' = log \cup {"Number of valid IDs inside insert_relationships_into_neo4j"}
  /\ constraints' = constraints \cup {"User"}
  /\ stmts' = stmts + 1
  /\ pc' = "q_begin"
  /\ UNCHANGED <<srcVars, runs, exc, conn, drv, connAcq, drvAcq, connFail, graph,
                 bulkVars, queryVars, histVars>>

\* tx = session.begin_transaction()
LBegin ==
  /\ pc = "q_begin"
  /\ tx' = "open" /\ txGraph' = graph /\ rowIdx' = 1
  /\ pc' = "q_loop"
  /\ UNCHANGED <<srcVars, runs, log, exc, conn, drv, connAcq, drvAcq, connFail, graph,
                 constraints, bulkVars, stmts, fetchVars, page_size, failedAt, histVars>>

\* the constraint statement or begin_transaction raises, outside the try
LOpenFail ==
  /\ pc \in {"q_session", "q_begin"}
  /\ Uncaught("Neo4jError")
  /\ UNCHANGED <<srcVars, runs, log, conn, drv, connAcq, drvAcq, connFail, graph,
                 constraints, bulkVars, stmts, queryVars, histVars>>

AfterInsert == IF script = "loader" THEN "exit" ELSE "q_done"

\* one turn of "for row in relationships"
LRow ==
  /\ pc = "q_loop" /\ rowIdx <= Len(all_relationships)
  /\ LET row == all_relationships[rowIdx]
     IN IF Discard(row, valid_ids)
        THEN /\ log' = log \cup {"Skipping invalid relationship"}
             /\ UNCHANGED <<txGraph, stmts>>
        ELSE /\ txGraph' = RowStmt(txGraph, row, account_details)
             /\ stmts' = stmts + 1
             /\ log' = log
  /\ rowIdx' = rowIdx + 1
  /\ UNCHANGED <<srcVars, pc, runs, exc, conn, drv, connAcq, drvAcq, connFail, graph,
                 constraints, bulkVars, fetchVars, page_size, tx, failedAt, histVars>>

\* except Exception as e: tx.rollback(); print(...); finally: tx.close()
Handler ==
  /\ graph' = Rollback(graph, txGraph)
  /\ txGraph' = graph'
  /\ tx' = "rolledback"
  /\ failedAt' = rowIdx
  /\ log' = log \cup {"Transaction rolled back due to error"}
  /\ pc' = AfterInsert
  /\ UNCHANGED <<srcVars, runs, exc, conn, drv, connAcq, drvAcq, connFail, constraints,
                 bulkVars, stmts, fetchVars, page_size, rowIdx, histVars>>

\* tx.run raises on a row that is not discarded
LRowRaise ==
  /\ pc = "q_loop" /\ rowIdx <= Len(all_relationships)
  /\ ~Discard(all_relationships[rowIdx], valid_ids)
  /\ Handler

\* tx.commit(); "Transaction committed successfully."; finally: tx.close()
LCommit ==
  /\ pc = "q_loop" /\ rowIdx > Len(all_relationships)
  /\ graph' = Commit(graph, txGraph)
  /\ tx' = "committed"
  /\ log' = log \cup {"Transaction committed successfully."}
  /\ pc' = AfterInsert
  /\ Loaded
  /\ UNCHANGED <<srcVars, runs, exc, conn, drv, connAcq, drvAcq, connFail, constraints,
                 bulkVars, stmts, fetchVars, page_size, txGraph, rowIdx, failedAt,
                 startGraph>>

\* tx.commit() raises
LCommitRaise ==
  /\ pc = "q_loop" /\ rowIdx > Len(all_relationships)
  /\ Handler

\* "Done! Check your Neo4j database for the new graph data."; driver.close()
QDone ==
  /\ pc = "q_done"
  /\ log' = log \cup {"Done! Check your Neo4j database for the new graph data."}
  /\ drv' = "closed"
  /\ pc' = "exit"
  /\ UNCHANGED <<srcVars, runs, exc, conn, connAcq, drvAcq, connFail, graph, constraints,
                 bulkVars, stmts, queryVars, histVars>>

NextLoader == LSession \/ LBegin \/ LOpenFail \/ LRow \/ LRowRaise \/ LCommit \/ LCommitRaise

NextQuery ==
  \/ QDriver \/ QVerify \/ QVerifyFail \/ QFetchIds \/ QFetchIdsFail
  \/ QFetchDetails \/ QFetchDetailsFail \/ QDone

Next ==
  \/ StartRun \/ SourceEdit \/ SourceDelete
  \/ NextBulk \/ NextQuery \/ NextFetch \/ NextLoader

\* The two scripts, run and run again.
InitScripts == Init /\ script \in {"bulk", "query"}

Spec == InitScripts /\ [][Next]_vars

\* main.py alone.
InitBulk == Init /\ script = "bulk"

NextBulkRuns == StartRun \/ SourceEdit \/ SourceDelete \/ NextBulk

SpecBulk == InitBulk /\ [][NextBulkRuns]_vars

\* insert_relationships_into_neo4j called with any arguments.
InitLoader == Init /\ script = "loader"

NextLoaderRuns == StartRun \/ NextLoader

SpecLoader == InitLoader /\ [][NextLoaderRuns]_vars

\* fetch_follower_relationships called on any followers table. The script is
\* single-threaded and synchronous: a step that can be taken is taken.
InitFetch == Init /\ script = "fetch"

NextFetchRuns == StartRun \/ NextFetch

FairFetch == InitFetch /\ [][NextFetchRuns]_vars /\ WF_vars(NextFetchRuns)


\* ================================================================= claims
NodeOf(g, label, key) == CHOOSE n \in Match(g, label, key) : TRUE

\* an edge of the type from a node (label1, key1) to a node (label2, key2)
EdgeBetween(g, type, label1, key1, label2, key2) ==
  \E s \in Match(g, label1, key1) : \E d \in Match(g, label2, key2) :
    HasEdge(g, type, s.nid, d.nid)

BothValid(row) == row.account_id \in valid_ids /\ row.follower_account_id \in valid_ids

Endpoints(row) == {row.account_id, row.follower_account_id}

Rows == 1..Len(all_relationships)

\* C1: after a run of insert_relationships_into_neo4j that commits, every row passed
\* to it has its FOLLOWED_BY edge in the graph if and only if both of its ids are in
\* valid_ids (or the edge was there before the batch); the graph has a new User node
\* only for an endpoint of a row with both ids valid, so a discarded row adds nothing,
\* and the rows after a discarded row are applied.
C1_EdgeIffBothValid ==
  tx = "committed" =>
    /\ \A i \in Rows :
         LET row == all_relationships[i]
         IN EdgeBetween(graph, "FOLLOWED_BY", "User", row.account_id,
                        "User", row.follower_account_id)
            <=> \/ BothValid(row)
                \/ EdgeBetween(startGraph, "FOLLOWED_BY", "User", row.account_id,
                               "User", row.follower_account_id)
    /\ \A id \in IDs :
         Match(graph, "User", id) # {} <=>
           \/ Match(startGraph, "User", id) # {}
           \/ \E i \in Rows : BothValid(all_relationships[i])
                              /\ id \in Endpoints(all_relationships[i])

\* a committed batch in which a discarded row precedes an applied one
C1_Witness ==
  /\ script = "loader" /\ tx = "committed"
  /\ \E i \in Rows : \E j \in Rows :
       /\ i < j
       /\ ~BothValid(all_relationships[i])
       /\ BothValid(all_relationships[j])
       /\ all_relationships[i].account_id \in valid_ids

C5_DetailMissIsNull ==
  tx = "committed" =>
    \A i \in Rows :
      LET row == all_relationships[i]
      IN BothValid(row) =>
           /\ EdgeBetween(graph, "FOLLOWED_BY", "User", row.account_id,
                          "User", row.follower_account_id)
           /\ \A id \in Endpoints(row) :
                /\ Match(graph, "User", id) # {}
                /\ \A n \in Match(graph, "User", id) :
                     /\ id \notin DOMAIN account_details => n.props = NoProps
                     /\ id \in DOMAIN account_details =>
                          /\ n.props.username = account_details[id].username
                          /\ n.props.account_display_name
                               = account_details[id].account_display_name
                          /\ n.props.bio = account_details[id].bio
                     /\ id \in profNull =>
                          /\ n.props.username # NULL
                          /\ n.props.bio = NULL /\ n.props.location = NULL
                          /\ n.props.avatar_media_url = NULL

\* a committed row between an endpoint with no details and one with no profile
C5_Witness ==
  /\ script = "loader" /\ tx = "committed"
  /\ \E i \in Rows :
       LET row == all_relationships[i]
       IN /\ BothValid(row)
          /\ row.account_id \notin DOMAIN account_details
          /\ row.follower_account_id \in profNull


\* C2: a load repeated on an unchanged source changes nothing. Once a run of
\* main.py has completed its LOAD CSV statements, or a run of import.py has
\* committed its batch, and as long as the source has not been edited since, the
\* graph stays what that run left: the same nodes and the same edges, at every
\* statement of every later run, duplicate rows and a pair present in both
\* followers and following included.
C2_SecondRunChangesNothing == (okRan /\ ~srcChanged) => graph = okGraph

SameFollow(i, j) ==
  /\ followersTbl[i].account_id = followingTbl[j].following_account_id
  /\ followersTbl[i].follower_account_id = followingTbl[j].account_id

\* a second complete run of main.py over a pair that is in followers and in
\* following, after a first one that made its edge
C2_Witness ==
  /\ script = "bulk" /\ runs = 2 /\ pc = "exit" /\ "Done." \in log
  /\ okRuns = 2 /\ ~srcChanged /\ startGraph = okGraph
  /\ \E e \in graph.edges : e.type = "FOLLOWS"
  /\ \E i \in 1..Len(followersTbl) : \E j \in 1..Len(followingTbl) : SameFollow(i, j)

FullResult == FilterIn(followersTbl, valid_ids)

Returned == script = "fetch" /\ pc = "exit" /\ exc = "none"

\* C3: fetch_follower_relationships ends for every followers table and page size;
\* when it returns, it has asked for exactly the pages up to the first one shorter
\* than page_size, and the list is the filtered table, every row once, in order.
C3_PagesEqualFullResult ==
  /\ [](Returned =>
          /\ all_relationships = FullResult
          /\ page = Len(FullResult) \div page_size
          /\ requests = page + 1)
  /\ (pc = "q_rels") ~> (pc = "exit")

\* two full pages and an empty third one
C3_Witness ==
  /\ Returned /\ page = 2 /\ Len(all_relationships) = 2 * page_size

\* C6 (as stated): a failed request of any fetch step reaches the caller wrapped
\* (RuntimeError), ends the run, and no transaction is opened and nothing written.
C6_FetchFailureWrapped ==
  fetchFail =>
    /\ pc = "exit" /\ exc = "RuntimeError"
    /\ tx = "none" /\ stmts = 0 /\ graph = startGraph

UniqueKeys(g) == \A m \in g.nodes : \A n \in g.nodes : (m.label = n.label /\ m.pk = n.pk) => m = n

\* C7: MERGE by key leaves what exists alone. No step removes or changes a node
\* that exists, except the commit of import.py's batch, whose Cypher sets the
\* properties; in particular main.py's LOAD CSV of a row whose key is in the graph
\* leaves that Account, Tweet or Media node as it is, whatever the row carries; and
\* no step leaves two nodes with one label and one key.
C7_MergeKeepsProps ==
  [][/\ \A n \in graph.nodes :
          n.label \in {"Account", "Tweet", "Media"} => n \in graph'.nodes
     /\ (\E n \in graph.nodes : n \notin graph'.nodes)
          => (script = "query" /\ tx' = "committed")
     /\ UniqueKeys(graph')]_vars

\* main.py has loaded account.csv again after the source's columns changed: the
\* node of a row still has the values of the first load
C7_Witness ==
  /\ script = "bulk" /\ runs = 2 /\ srcVersion = 2 /\ pc = "b_load" /\ stmts = 5
  /\ \E id \in accountTbl : \E n \in Match(graph, "Account", id) :
       /\ n.props.username = Text("username", id, 1)
       /\ n.props.num_tweets = 1

Csv(k) == csv[TABLES_TO_EXPORT[k][2]]

CsvAccounts == {Csv(1)[i].account_id : i \in 1..Len(Csv(1))}

CsvTweets == {Csv(2)[i].tweet_id : i \in 1..Len(Csv(2))}

Keys(g, label) == {n.pk : n \in {m \in g.nodes : m.label = label}}

EndLabels(type) ==
  CASE type = "TWEETED" -> <<"Account", "Tweet">>
    [] type = "FOLLOWS" -> <<"Account", "Account">>
    [] type = "LIKES" -> <<"Account", "Tweet">>
    [] type = "HAS_MEDIA" -> <<"Tweet", "Media">>
    [] type = "FOLLOWED_BY" -> <<"User", "User">>

EdgesJoinNodes(g) ==
  \A e \in g.edges :
    /\ \E n \in g.nodes : n.nid = e.src /\ n.label = EndLabels(e.type)[1]
    /\ \E n \in g.nodes : n.nid = e.dst /\ n.label = EndLabels(e.type)[2]

LoadComplete == script = "bulk" /\ stmts = NStmts

EveryResolvableRowHasItsEdge ==
  /\ \A i \in 1..Len(Csv(2)) :
       Csv(2)[i].account_id \in CsvAccounts =>
         EdgeBetween(graph, "TWEETED", "Account", Csv(2)[i].account_id,
                     "Tweet", Csv(2)[i].tweet_id)
  /\ \A i \in 1..Len(Csv(3)) :
       (Csv(3)[i].account_id \in CsvAccounts
        /\ Csv(3)[i].follower_account_id \in CsvAccounts) =>
         EdgeBetween(graph, "FOLLOWS", "Account", Csv(3)[i].follower_account_id,
                     "Account", Csv(3)[i].account_id)
  /\ \A i \in 1..Len(Csv(4)) :
       (Csv(4)[i].account_id \in CsvAccounts
        /\ Csv(4)[i].following_account_id \in CsvAccounts) =>
         EdgeBetween(graph, "FOLLOWS", "Account", Csv(4)[i].account_id,
                     "Account", Csv(4)[i].following_account_id)
  /\ \A i \in 1..Len(Csv(5)) :
       (Csv(5)[i].account_id \in CsvAccounts /\ Csv(5)[i].liked_tweet_id \in CsvTweets) =>
         EdgeBetween(graph, "LIKES", "Account", Csv(5)[i].account_id,
                     "Tweet", Csv(5)[i].liked_tweet_id)
  /\ \A i \in 1..Len(Csv(6)) :
       Csv(6)[i].tweet_id \in CsvTweets =>
         EdgeBetween(graph, "HAS_MEDIA", "Tweet", Csv(6)[i].tweet_id,
                     "Media", ToInteger(Csv(6)[i].media_id))

\* C9, the part the code keeps: in main.py's load every edge joins two nodes of the
\* graph, of the labels its type asks for; a row adds no node except through the
\* Account, Tweet and Media MERGEs, so a row naming a missing node is dropped and
\* the load goes on; and once the load has completed, every row whose two keys are
\* in the account / enriched_tweets files of this run has its edge.
C9_EdgesJoinGraphNodes ==
  script = "bulk" =>
    /\ EdgesJoinNodes(graph)
    /\ (pc = "b_load" /\ stmts >= 5) =>
         Keys(graph, "Account") = Keys(startGraph, "Account") \cup CsvAccounts
    /\ (pc = "b_load" /\ stmts >= 6) =>
         Keys(graph, "Tweet") = Keys(startGraph, "Tweet") \cup CsvTweets
    /\ LoadComplete => EveryResolvableRowHasItsEdge

\* a completed load whose followers file has a row naming a missing account and a
\* row that got its edge
C9_Witness ==
  /\ LoadComplete
  /\ \E i \in 1..Len(Csv(3)) : \E j \in 1..Len(Csv(3)) :
       /\ Csv(3)[i].follower_account_id \notin Keys(graph, "Account")
       /\ EdgeBetween(graph, "FOLLOWS", "Account", Csv(3)[j].follower_account_id,
                      "Account", Csv(3)[j].account_id)

\* C9: main.py's load creates an edge only between nodes that exist, drops a row
\* with a dangling end without stopping, gives every row whose two keys are in this
\* run's account / enriched_tweets files its edge, and an Account endpoint of an
\* edge the run creates belongs to the current run's account set.
C9_AccountEndpointInCurrentSet ==
  /\ C9_EdgesJoinGraphNodes
  /\ (script = "bulk" /\ pc \in {"b_load", "b_close"} /\ stmts >= 5) =>
       \A e \in graph.edges \ startGraph.edges : \A n \in graph.nodes :
         (n.nid \in {e.src, e.dst} /\ n.label = "Account") => n.pk \in CsvAccounts

\* C10 (as stated): a run acquires the Postgres connection and the Neo4j driver at
\* most once each, and when it has ended (by completing, by a failed export, by a
\* failed load, by an error inside import.py's main; the connection failures apart)
\* neither is still open.
C10_HandlesReleased ==
  /\ connAcq <= 1 /\ drvAcq <= 1
  /\ (pc = "exit" /\ connFail = "none") => (conn # "open" /\ drv # "open")

====
